---- MODULE Spec2Model ----
(***************************************************************************)
(* order-server: NSQ messages are validated, snappy-compressed and         *)
(* upserted into the "markets" table keyed by (regionID, typeID); three    *)
(* HTTP handlers read rows in a transaction and splice the "orders" arrays *)
(* of the rows into one JSON array.                                        *)
(*                                                                         *)
(* Bytes are modelled as their ASCII codes, byte slices as sequences.      *)
(* Offsets inside the library routines are 0-based as in the Go code.      *)
(***************************************************************************)
EXTENDS Integers, Sequences, FiniteSets, TLC

\* ------------------------------------------------------------------ bytes

\* Printable ASCII from code 32 (space) to 126 (~).
AsciiFrom32 ==
  << " ", "!", "\"", "#", "$", "%", "&", "'", "(", ")", "*", "+", ",", "-", ".", "/",
     "0", "1", "2", "3", "4", "5", "6", "7", "8", "9", ":", ";", "<", "=", ">", "?",
     "@", "A", "B", "C", "D", "E", "F", "G", "H", "I", "J", "K", "L", "M", "N", "O",
     "P", "Q", "R", "S", "T", "U", "V", "W", "X", "Y", "Z", "[", "backslash", "]", "^", "_",
     "backtick", "a", "b", "c", "d", "e", "f", "g", "h", "i", "j", "k", "l", "m", "n", "o",
     "p", "q", "r", "s", "t", "u", "v", "w", "x", "y", "z", "{", "|", "}", "~" >>

\* The byte of a character.
Ord(c) == 31 + (CHOOSE i \in 1..95 : AsciiFrom32[i] = c)

\* The byte slice of a tuple of characters.
Bs(s) == [i \in 1..Len(s) |-> Ord(s[i])]

\* data[i] and data[from:to] with the 0-based offsets.
At(data, i) == data[i + 1]
Slice(data, from, to) == SubSeq(data, from + 1, to)

Max(S) == CHOOSE x \in S : \A y \in S : y <= x

\* ----------------------------------------------------------------- snappy
\* github.com/golang/snappy, block format, as called at main.go:101 and :246.
\* A compressed block is a uvarint of the decoded length followed by
\* elements: a literal (tag 00) or a copy of earlier output (tags 01, 10).

\* encode.go: inputMargin = 16 - 1, minNonLiteralBlockSize = 1 + 1 + inputMargin.
inputMargin == 15
minNonLiteralBlockSize == 17

RECURSIVE Uvarint(_)
Uvarint(n) == IF n < 128 THEN <<n>> ELSE <<128 + (n % 128)>> \o Uvarint(n \div 128)

\* emitLiteral: the tag byte holds len-1 when below 60, else 60 and one more byte.
emitLiteral(lit) ==
  LET n == Len(lit) - 1
  IN IF n < 60 THEN <<n * 4>> \o lit ELSE <<60 * 4, n % 256>> \o lit

\* emitCopy for lengths up to 64: three bytes (tagCopy2) when the length is
\* at least 12 or the offset at least 2048, else two bytes (tagCopy1).
emitCopy(offset, length) ==
  IF length >= 12 \/ offset >= 2048
  THEN <<((length - 1) * 4 + 2) % 256, offset % 256, offset \div 256>>
  ELSE <<(offset \div 256) * 32 + (length - 4) * 4 + 1, offset % 256>>

load32(src, i) == Slice(src, i, i + 4)

\* table[hash(load32(src, s))]: the last position entered for these four
\* bytes, 0 for an empty slot.  The hash is taken to be free of collisions;
\* T is the set of positions entered so far.
Candidate(src, T, s) ==
  LET M == {p \in T : load32(src, p) = load32(src, s)}
  IN IF M = {} THEN 0 ELSE Max(M)

\* The end of the match: s advances while src[i] = src[s].
RECURSIVE matchEnd(_, _, _)
matchEnd(src, i, s) ==
  IF s < Len(src) /\ At(src, i) = At(src, s) THEN matchEnd(src, i + 1, s + 1) ELSE s

emitRemainder(src, nextEmit, out) ==
  IF nextEmit < Len(src) THEN out \o emitLiteral(Slice(src, nextEmit, Len(src))) ELSE out

\* encodeBlock (encode_other.go).  encScan is the inner search loop, encCopy
\* the loop that emits a copy and looks for an immediately following match.
RECURSIVE encScan(_, _, _, _, _, _)
RECURSIVE encCopy(_, _, _, _, _)
encScan(src, nextS, skip, T, nextEmit, out) ==
  LET s == nextS
      bytesBetweenHashLookups == skip \div 32
  IN IF s + bytesBetweenHashLookups > Len(src) - inputMargin
     THEN emitRemainder(src, nextEmit, out)
     ELSE LET candidate == Candidate(src, T, s)
          IN IF load32(src, s) = load32(src, candidate)
             THEN encCopy(src, s, candidate, T \cup {s},
                          out \o emitLiteral(Slice(src, nextEmit, s)))
             ELSE encScan(src, s + bytesBetweenHashLookups,
                          skip + bytesBetweenHashLookups, T \cup {s}, nextEmit, out)

encCopy(src, base, candidate, T, out) ==
  LET s == matchEnd(src, candidate + 4, base + 4)
      out2 == out \o emitCopy(base - candidate, s - base)
  IN IF s >= Len(src) - inputMargin
     THEN emitRemainder(src, s, out2)
     ELSE LET T2 == T \cup {s - 1}
              candidate2 == Candidate(src, T2, s)
          IN IF load32(src, s) # load32(src, candidate2)
             THEN encScan(src, s + 1, 32, T2 \cup {s}, s, out2)
             ELSE encCopy(src, s, candidate2, T2 \cup {s}, out2)

encodeBlock(src) == encScan(src, 1, 32, {}, 0, <<>>)

\* snappy.Encode(nil, src) for inputs of one block (at most 65536 bytes).
snappy_Encode(src) ==
  Uvarint(Len(src)) \o
    (IF Len(src) = 0 THEN <<>>
     ELSE IF Len(src) < minNonLiteralBlockSize THEN emitLiteral(src)
     ELSE encodeBlock(src))

\* decodedLen: the uvarint header; n = -1 when it is missing or unfinished.
RECURSIVE decodedLen(_, _, _)
decodedLen(src, i, mul) ==
  IF i >= Len(src) THEN [n |-> -1, s |-> 0]
  ELSE IF At(src, i) < 128 THEN [n |-> At(src, i) * mul, s |-> i + 1]
  ELSE LET r == decodedLen(src, i + 1, mul * 128)
       IN IF r.n < 0 THEN r ELSE [n |-> (At(src, i) - 128) * mul + r.n, s |-> r.s]

\* The copy loop of decode: byte by byte, so that a copy may overlap itself.
RECURSIVE copyBack(_, _, _)
copyBack(dst, offset, length) ==
  IF length = 0 THEN dst
  ELSE copyBack(Append(dst, dst[Len(dst) + 1 - offset]), offset, length - 1)

\* decode (decode_other.go): dst so far, s the offset in src, dLen the
\* announced length.  ok = FALSE is ErrCorrupt.
RECURSIVE decode(_, _, _, _)
decode(src, s, dst, dLen) ==
  IF s >= Len(src) THEN [ok |-> Len(dst) = dLen, data |-> dst]
  ELSE LET tag == At(src, s) % 4
           x == At(src, s) \div 4
           corrupt == [ok |-> FALSE, data |-> <<>>]
       IN IF tag = 0
          THEN LET hdr == IF x < 60 THEN 1 ELSE x - 58
                   \* literals longer than 256 bytes (x > 60) do not occur here
                   bad == hdr > Len(src) - s \/ x > 60
                   length == IF x < 60 THEN x + 1
                             ELSE IF bad THEN 0 ELSE At(src, s + 1) + 1
                   from == s + hdr
               IN IF bad \/ length > dLen - Len(dst) \/ length > Len(src) - from
                  THEN corrupt
                  ELSE decode(src, from + length, dst \o Slice(src, from, from + length), dLen)
          ELSE LET size == IF tag = 1 THEN 2 ELSE IF tag = 2 THEN 3 ELSE 5
                   short == s + size > Len(src)
                   length == IF tag = 1 THEN 4 + (x % 8) ELSE 1 + x
                   \* tagCopy4: an offset with a high byte set exceeds any dst here
                   offset == IF short THEN 0
                             ELSE IF tag = 1 THEN (x \div 8) * 256 + At(src, s + 1)
                             ELSE IF tag = 3 /\ At(src, s + 3) + At(src, s + 4) > 0
                             THEN Len(dst) + 1
                             ELSE At(src, s + 1) + 256 * At(src, s + 2)
               IN IF short \/ offset <= 0 \/ Len(dst) < offset
                     \/ length > dLen - Len(dst)
                  THEN corrupt
                  ELSE decode(src, s + size, copyBack(dst, offset, length), dLen)

\* snappy.Decode(nil, src): [ok, data]; ok = FALSE is a decode error.
snappy_Decode(src) ==
  LET h == decodedLen(src, 0, 1)
  IN IF h.n < 0 THEN [ok |-> FALSE, data |-> <<>>] ELSE decode(src, h.s, <<>>, h.n)

\* ------------------------------------------------------------- jsonparser
\* github.com/buger/jsonparser as called at main.go:88, :94 and :251 with a
\* single key.  An offset of -1 is "not found".  Inputs hold no backslash,
\* so the escape handling of stringEnd and of key comparison is left out.

IsSpace(c) == c \in {32}
IsDigit(c) == c >= 48 /\ c <= 57

\* nextToken: the offset (from i) of the first byte that is not white space.
RECURSIVE nextToken(_, _)
nextToken(data, i) ==
  IF i >= Len(data) THEN -1
  ELSE IF IsSpace(At(data, i)) THEN nextToken(data, i + 1) ELSE i

\* tokenEnd: the offset (from i) of the first delimiter, or the length.
RECURSIVE tokenEnd(_, _)
tokenEnd(data, i) ==
  IF i >= Len(data) THEN Len(data)
  ELSE IF IsSpace(At(data, i)) \/ At(data, i) \in {44, 125, 93}
       THEN i ELSE tokenEnd(data, i + 1)

\* stringEnd: the offset just after the quote closing a string whose
\* contents begin at i.
RECURSIVE stringEnd(_, _)
stringEnd(data, i) ==
  IF i >= Len(data) THEN -1
  ELSE IF At(data, i) = 34 THEN i + 1 ELSE stringEnd(data, i + 1)

\* blockEnd: the offset just after the closeSym that returns to level 0.
RECURSIVE blockEnd(_, _, _, _, _)
blockEnd(data, i, level, openSym, closeSym) ==
  IF i >= Len(data) THEN -1
  ELSE LET c == At(data, i)
       IN IF c = 34
          THEN LET se == stringEnd(data, i + 1)
               IN IF se = -1 THEN -1 ELSE blockEnd(data, se, level, openSym, closeSym)
          ELSE IF c = openSym THEN blockEnd(data, i + 1, level + 1, openSym, closeSym)
          ELSE IF c = closeSym
               THEN IF level - 1 = 0 THEN i + 1
                    ELSE blockEnd(data, i + 1, level - 1, openSym, closeSym)
          ELSE blockEnd(data, i + 1, level, openSym, closeSym)

\* searchKeys with one key: the offset just after the ':' of the first
\* member named key at nesting level 1; arrays are skipped.
RECURSIVE searchKeys(_, _, _, _)
searchKeys(data, key, i, level) ==
  IF i >= Len(data) THEN -1
  ELSE LET c == At(data, i)
       IN IF c = 34
          THEN LET keyBegin == i + 1
                   strEnd == stringEnd(data, keyBegin)
                   valueOffset == IF strEnd = -1 THEN -1 ELSE nextToken(data, strEnd)
               IN IF strEnd = -1 \/ valueOffset = -1 THEN -1
                  ELSE IF At(data, valueOffset) = 58 /\ level = 1
                       THEN IF Slice(data, keyBegin, strEnd - 1) = key
                            THEN valueOffset + 1
                            ELSE searchKeys(data, key, valueOffset + 1, level)
                  ELSE IF At(data, valueOffset) = 58
                       THEN searchKeys(data, key, valueOffset + 1, level)
                       ELSE searchKeys(data, key, valueOffset, level)
          ELSE IF c = 123 THEN searchKeys(data, key, i + 1, level + 1)
          ELSE IF c = 125 THEN searchKeys(data, key, i + 1, level - 1)
          ELSE IF c = 91
               THEN LET arraySkip == blockEnd(data, i, 0, 91, 93)
                    IN IF arraySkip = -1 THEN -1 ELSE searchKeys(data, key, arraySkip, level)
          ELSE searchKeys(data, key, i + 1, level)

\* jsonparser getType: the value that begins at offset and its type; e is
\* the offset at which the value was found to end, -1 when it does not.
typed(data, offset, e, type) ==
  IF e = -1 THEN [err |-> TRUE, value |-> <<>>, type |-> "Unknown"]
  ELSE [err |-> FALSE, value |-> Slice(data, offset, e), type |-> type]

literal(value, type, allowed) ==
  IF value \in allowed THEN [err |-> FALSE, value |-> value, type |-> type]
  ELSE [err |-> TRUE, value |-> <<>>, type |-> "Unknown"]

jsonparser_getType(data, offset) ==
  IF At(data, offset) = 34
  THEN typed(data, offset, stringEnd(data, offset + 1), "String")
  ELSE IF At(data, offset) = 91
  THEN typed(data, offset, blockEnd(data, offset, 0, 91, 93), "Array")
  ELSE IF At(data, offset) = 123
  THEN typed(data, offset, blockEnd(data, offset, 0, 123, 125), "Object")
  ELSE IF At(data, offset) \in {116, 102}
  THEN literal(Slice(data, offset, tokenEnd(data, offset)), "Boolean",
               {Bs(<<"t", "r", "u", "e">>), Bs(<<"f", "a", "l", "s", "e">>)})
  ELSE IF At(data, offset) \in {117, 110}
  THEN literal(Slice(data, offset, tokenEnd(data, offset)), "Null",
               {Bs(<<"n", "u", "l", "l">>)})
  ELSE IF IsDigit(At(data, offset)) \/ At(data, offset) = 45
  THEN typed(data, offset, tokenEnd(data, offset), "Number")
  ELSE typed(data, offset, -1, "Unknown")

\* jsonparser.Get(data, key): [err, value, type].  Not found, or a value
\* that cannot be typed, is an error; the quotes of a String are stripped.
KeyPathNotFound == [err |-> TRUE, value |-> <<>>, type |-> "NotExist"]

unquoted(r) ==
  IF ~r.err /\ r.type = "String"
  THEN [r EXCEPT !.value = Slice(r.value, 1, Len(r.value) - 1)]
  ELSE r

getAt(data, nO) ==
  IF nO = -1 THEN KeyPathNotFound ELSE unquoted(jsonparser_getType(data, nO))

getFrom(data, offset) ==
  IF offset = -1 THEN KeyPathNotFound ELSE getAt(data, nextToken(data, offset))

jsonparser_Get(data, key) == getFrom(data, searchKeys(data, key, 0, 0))

\* parseInt: an optional '-' and then digits only; [ok, val].
RECURSIVE parseDigits(_, _, _)
parseDigits(bytes, i, acc) ==
  IF i >= Len(bytes) THEN [ok |-> TRUE, val |-> acc]
  ELSE IF ~IsDigit(At(bytes, i)) THEN [ok |-> FALSE, val |-> 0]
  ELSE parseDigits(bytes, i + 1, acc * 10 + (At(bytes, i) - 48))

parseInt(bytes) ==
  IF Len(bytes) = 0 THEN [ok |-> FALSE, val |-> 0]
  ELSE IF At(bytes, 0) = 45
       THEN LET r == parseDigits(bytes, 1, 0) IN [ok |-> r.ok, val |-> 0 - r.val]
       ELSE parseDigits(bytes, 0, 0)

\* jsonparser.GetInt(data, key): [err, val]; an absent key, a value that is
\* not a Number and a Number that is not an integer are errors.
parsed(p) == [err |-> ~p.ok, val |-> p.val]

\* A conversion that takes the digits of any value, a quoted one too.
intOfAnyType(g) ==
  IF g.err THEN [err |-> TRUE, val |-> 0] ELSE parsed(parseInt(g.value))

intOf(g) ==
  IF g.err \/ g.type # "Number" THEN [err |-> TRUE, val |-> 0]
  ELSE parsed(parseInt(g.value))

jsonparser_GetInt(data, key) == intOf(jsonparser_Get(data, key))

\* ------------------------------------------------------------------ merge

kOrders == Bs(<<"o", "r", "d", "e", "r", "s">>)
kRegionID == Bs(<<"r", "e", "g", "i", "o", "n", "I", "D">>)
kTypeID == Bs(<<"t", "y", "p", "e", "I", "D">>)

\* A *sql.Rows: the market column of the rows the query matched, in the
\* order the store returns them.  nextErrAt = k > 0: the k-th rows.Next()
\* returns false because fetching failed (the error stays in rows.Err());
\* scanErrAt = k > 0: rows.Scan fails on the k-th row.
Rows(data, nextErrAt, scanErrAt) ==
  [data |-> data, nextErrAt |-> nextErrAt, scanErrAt |-> scanErrAt]

\* What a call of concatRowsToJSON ends in: a body and no error, an error
\* and a nil body, or a run-time panic (slice bounds out of range).
MergeOk(body) == [kind |-> "ok", body |-> body, err |-> "none"]
MergeErr(e) == [kind |-> "err", body |-> <<>>, err |-> e]
MergePanic == [kind |-> "panic", body |-> <<>>, err |-> "none"]

\* A closing that drops the last byte whatever it is.
closeAfterStrip(response) ==
  SubSeq(response, 1, Len(response) - 1) \o <<93>>

\* The last lines: drop the trailing comma, if anything was appended, and close.
closeResponse(response) ==
  (IF Len(response) > 1 THEN SubSeq(response, 1, Len(response) - 1) ELSE response)
    \o <<93>>

\* A splice that keeps the brackets of the orders value.
spliceWhole(response, orders) ==
  response \o orders \o <<44>>

\* orders[1:len(orders)-1] followed by a comma
spliceOrders(response, orders) ==
  response \o Slice(orders, 1, Len(orders) - 1) \o <<44>>

\* The loop of concatRowsToJSON after k rows: rows.Next and rows.Scan, then
\* snappy.Decode of the column, then the "orders" member of the market.
RECURSIVE concatLoop(_, _, _)
appendOrders(rows, k, response, orders) ==
  IF orders.err THEN MergeErr("orders")
  ELSE IF 1 > Len(orders.value) - 1 THEN MergePanic
  ELSE concatLoop(rows, k + 1, spliceOrders(response, orders.value))

\* A merge that leaves out the rows it cannot decompress.
appendMarketOrSkip(rows, k, response, decompressedMarket) ==
  IF ~decompressedMarket.ok THEN concatLoop(rows, k + 1, response)
  ELSE appendOrders(rows, k, response,
                    jsonparser_Get(decompressedMarket.data, kOrders))

appendMarket(rows, k, response, decompressedMarket) ==
  IF ~decompressedMarket.ok THEN MergeErr("decode")
  ELSE appendOrders(rows, k, response,
                    jsonparser_Get(decompressedMarket.data, kOrders))

concatLoop(rows, k, response) ==
  IF k >= Len(rows.data) \/ rows.nextErrAt = k + 1
  THEN MergeOk(closeResponse(response))
  ELSE IF rows.scanErrAt = k + 1 THEN MergeErr("scan")
  ELSE appendMarket(rows, k, response, snappy_Decode(rows.data[k + 1]))

concatRowsToJSON(rows) == concatLoop(rows, 0, <<91>>)

\* --------------------------------------------------------------- messages

\* "key":value and {member,member,...}
Member(key, value) == <<34>> \o key \o <<34, 58>> \o value

RECURSIVE JoinComma(_)
JoinComma(ss) ==
  IF ss = <<>> THEN <<>>
  ELSE IF Len(ss) = 1 THEN Head(ss)
  ELSE Head(ss) \o <<44>> \o JoinComma(Tail(ss))

Object(members) == <<123>> \o JoinComma(members) \o <<125>>

\* A message of the schema {"regionID":r,"typeID":t,"orders":o}.
Market(r, t, o) ==
  Object(<<Member(kRegionID, r), Member(kTypeID, t), Member(kOrders, o)>>)

\* The message bodies the bus delivers in the model.  1 and 2 share a key;
\* 3 holds an empty orders array; 4 has no orders member; the orders of 5
\* is a number; 6 to 9 lack regionID or typeID or hold a value for it that
\* is not an integer; 10 shares its typeID with 1 and holds one order.
Bodies ==
  << Market(Bs(<<"1">>), Bs(<<"1">>), Bs(<<"[", "7", "]">>)),
     Market(Bs(<<"1">>), Bs(<<"1">>), Bs(<<"[", "8", ",", "9", "]">>)),
     Market(Bs(<<"2">>), Bs(<<"1">>), Bs(<<"[", "]">>)),
     Object(<<Member(kRegionID, Bs(<<"1">>)), Member(kTypeID, Bs(<<"2">>))>>),
     Market(Bs(<<"2">>), Bs(<<"2">>), Bs(<<"5">>)),
     Object(<<Member(kTypeID, Bs(<<"1">>)), Member(kOrders, Bs(<<"[", "7", "]">>))>>),
     Object(<<Member(kRegionID, Bs(<<"1">>)), Member(kOrders, Bs(<<"[", "7", "]">>))>>),
     Market(Bs(<<"\"", "1", "\"">>), Bs(<<"1">>), Bs(<<"[", "7", "]">>)),
     Market(Bs(<<"1">>), Bs(<<"1", ".", "5">>), Bs(<<"[", "7", "]">>)),
     Market(Bs(<<"2">>), Bs(<<"1">>), Bs(<<"[", "6", "]">>)) >>

RegionIDs == {1, 2}
TypeIDs == {1, 2}

\* ------------------------------------------------------------------ state

\* Handler goroutines of the consumer (20 in main.go:78) and HTTP requests
\* served at once, as modelled; deliveries and requests over a run.
NumHandlers == 2
NumClients == 1
MaxDeliveries == 2
MaxRequests == 1

\* consumer.AddConcurrentHandlers(..., 20)
ConcurrentHandlers == 20

\* db.SetMaxOpenConns(20)
MaxOpenConns == 20

\* nsqConfig.MaxInFlight = 100
MaxInFlight == 100

Handlers == 1..NumHandlers
Clients == 1..NumClients
Keys == RegionIDs \X TypeIDs

VARIABLES
  table,      \* the rows of "markets": records [regionID, typeID, market]
  openConns,  \* pool connections held by transactions that were not ended
  handler,    \* per handler goroutine: its place in handleMessage and locals
  client,     \* per HTTP request goroutine: its place in the gin handler
  delivered,  \* messages nsqd has sent to the consumer so far
  inFlight,   \* messages sent and neither finished nor requeued yet
  requests,   \* HTTP requests accepted so far
  committed   \* history: per key, the last two bodies whose upsert committed

vars ==
  <<table, openConns, handler, client, delivered, inFlight, requests, committed>>

\* A handler goroutine between messages; trace keeps the stages its last
\* message went through, overlapped whether its transaction began while
\* another handler held an open transaction for the same key.
IdleHandler(trace) ==
  [pc |-> "idle", body |-> 0, regionID |-> 0, typeID |-> 0,
   compressedRowset |-> <<>>, tx |-> "none", ret |-> "none", trace |-> trace,
   overlapped |-> FALSE]

\* A request goroutine between requests; snapshot keeps, per key, the body
\* that was committed last when the query of the request ran (0: none).
IdleClient ==
  [pc |-> "idle", kind |-> "none", regionID |-> 0, typeID |-> 0,
   rows |-> Rows(<<>>, 0, 0), merge |-> "none", response |-> <<>>,
   tx |-> "none", status |-> 0, snapshot |-> [k \in Keys |-> 0]]

Init ==
  /\ table = {}
  /\ openConns = 0
  /\ handler = [h \in Handlers |-> IdleHandler(<<>>)]
  /\ client = [c \in Clients |-> IdleClient]
  /\ delivered = 0
  /\ inFlight = 0
  /\ requests = 0
  /\ committed = [k \in Keys |-> <<>>]

\* ------------------------------------------------------------------ store

RowsOf(tbl, r, t) == {row \in tbl : row.regionID = r /\ row.typeID = t}

\* Statements other than the one of main.go:103, against which the
\* properties of the store are tested: a plain INSERT into a table without
\* the primary key, ON CONFLICT DO NOTHING, and an update that writes the
\* first half of the new market over the old one.
InsertOnly(tbl, r, t, m) ==
  tbl \cup {[regionID |-> r, typeID |-> t, market |-> m]}

KeepExisting(tbl, r, t, m) ==
  IF RowsOf(tbl, r, t) # {} THEN tbl
  ELSE tbl \cup {[regionID |-> r, typeID |-> t, market |-> m]}

PartialOverwrite(tbl, r, t, m) ==
  {[regionID |-> r, typeID |-> t,
    market |-> SubSeq(m, 1, Len(m) \div 2)
                 \o SubSeq(row.market, Len(m) \div 2 + 1, Len(row.market))]
     : row \in RowsOf(tbl, r, t)}
  \cup (tbl \ RowsOf(tbl, r, t))
  \cup (IF RowsOf(tbl, r, t) = {} THEN {[regionID |-> r, typeID |-> t, market |-> m]}
        ELSE {})

\* A write that replaces whatever the region had stored.
UpsertRegion(tbl, r, t, m) ==
  {row \in tbl : row.regionID # r} \cup {[regionID |-> r, typeID |-> t, market |-> m]}

\* INSERT ... ON CONFLICT ("regionID", "typeID") DO UPDATE SET "market" =
\* EXCLUDED."market", with PRIMARY KEY ("regionID", "typeID").
Upsert(tbl, r, t, m) ==
  (tbl \ RowsOf(tbl, r, t)) \cup {[regionID |-> r, typeID |-> t, market |-> m]}

\* A transaction that ran the upsert and has not committed holds the row:
\* an upsert of the same key by another transaction waits for it.
RowLocked(self, r, t) ==
  \E h \in Handlers \ {self} :
    handler[h].pc = "commit" /\ handler[h].regionID = r /\ handler[h].typeID = t

\* Another handler holds an open transaction for the key of this one.
SameKeyOpen(self) ==
  \E h \in Handlers \ {self} :
    /\ handler[h].tx = "open"
    /\ handler[h].regionID = handler[self].regionID
    /\ handler[h].typeID = handler[self].typeID

\* Per key, the body whose upsert committed last (0: none).
LastCommitted ==
  [k \in Keys |-> IF committed[k] = <<>> THEN 0 ELSE committed[k][Len(committed[k])]]

\* The last two of a history.
LastTwo(s) == IF Len(s) > 2 THEN SubSeq(s, Len(s) - 1, Len(s)) ELSE s

\* ---------------------------------------------------------- handleMessage

H(h, rec) == handler' = [handler EXCEPT ![h] = rec]

\* A return with an error: the handler is done, the trace says why.
ReturnErr(rec, why) ==
  [rec EXCEPT !.pc = "returned", !.ret = "err", !.trace = Append(@, why)]

\* main.go:87-101: the locals of a handler that was handed message b when
\* it reaches db.Begin(), or returns before: the two GetInt calls, then
\* snappy.Encode of the whole body.
\* A handler that compresses the body before it looks at the fields.
compressedFirst(received, regionID, typeID) ==
  IF regionID.err \/ typeID.err
  THEN ReturnErr([received EXCEPT !.trace = Append(@, "Compressed")], "Rejected")
  ELSE [received EXCEPT !.pc = "begin", !.regionID = regionID.val,
                        !.typeID = typeID.val,
                        !.compressedRowset = snappy_Encode(Bodies[received.body]),
                        !.trace = @ \o <<"Compressed", "FieldsValidated">>]

validated(received, regionID, typeID) ==
  IF regionID.err THEN ReturnErr(received, "Rejected")
  ELSE IF typeID.err THEN ReturnErr(received, "Rejected")
  ELSE [received EXCEPT !.pc = "begin", !.regionID = regionID.val,
                        !.typeID = typeID.val,
                        !.compressedRowset = snappy_Encode(Bodies[received.body]),
                        !.trace = @ \o <<"FieldsValidated", "Compressed">>]

Validate(b) ==
  validated([IdleHandler(<<"Received">>) EXCEPT !.body = b],
            jsonparser_GetInt(Bodies[b], kRegionID),
            jsonparser_GetInt(Bodies[b], kTypeID))

\* Validate over the bodies of the model, computed once.
Validated == [b \in DOMAIN Bodies |-> Validate(b)]

\* The handler goroutines that are handling a message, and the messages in
\* flight that wait for one.
Busy == {h \in Handlers : handler[h].pc # "idle"}
Waiting == inFlight - Cardinality(Busy)

\* nsqd sends a message to the consumer, which it does while fewer than
\* MaxInFlight messages are in flight.
Deliver ==
  /\ delivered < MaxDeliveries
  /\ inFlight < MaxInFlight
  /\ inFlight' = inFlight + 1
  /\ delivered' = delivered + 1
  /\ UNCHANGED <<table, openConns, handler, client, requests, committed>>

\* The consumer hands a message in flight to an idle handler goroutine,
\* which runs up to its first store operation.
Receive(h) ==
  /\ handler[h].pc = "idle"
  /\ Waiting > 0
  /\ \E b \in DOMAIN Bodies : H(h, Validated[b])
  /\ UNCHANGED <<table, openConns, client, delivered, inFlight, requests, committed>>

\* A pool without SetMaxOpenConns: Begin opens a connection whenever asked.
BeginUnbounded(h) ==
  /\ handler[h].pc = "begin"
  /\ openConns' = openConns + 1
  /\ H(h, [handler[h] EXCEPT !.pc = "exec", !.tx = "open",
                             !.overlapped = SameKeyOpen(h)])
  /\ UNCHANGED <<table, client, delivered, requests, committed, inFlight>>

\* main.go:104: db.Begin() takes a connection of the pool, waiting for one
\* when all MaxOpenConns are held.
Begin(h) ==
  /\ handler[h].pc = "begin"
  /\ openConns < MaxOpenConns
  /\ openConns' = openConns + 1
  /\ H(h, [handler[h] EXCEPT !.pc = "exec", !.tx = "open",
                             !.overlapped = SameKeyOpen(h)])
  /\ UNCHANGED <<table, client, delivered, requests, committed, inFlight>>

\* main.go:105-107: db.Begin() returns an error when the connection it was
\* given fails; while the pool has none to give it waits and returns nothing.
BeginFail(h) ==
  /\ handler[h].pc = "begin"
  /\ openConns < MaxOpenConns
  /\ H(h, ReturnErr(handler[h], "StoreFailed"))
  /\ UNCHANGED <<table, openConns, client, delivered, requests, committed, inFlight>>

\* main.go:108: the upsert runs in the transaction and holds the row.
Exec(h) ==
  /\ handler[h].pc = "exec"
  /\ ~RowLocked(h, handler[h].regionID, handler[h].typeID)
  /\ H(h, [handler[h] EXCEPT !.pc = "commit"])
  /\ UNCHANGED <<table, openConns, client, delivered, requests, committed, inFlight>>

\* A handler that logs the failure of the upsert and returns nil.
ExecFailIgnored(h) ==
  /\ handler[h].pc = "exec"
  /\ H(h, [handler[h] EXCEPT !.pc = "returned", !.ret = "nil",
                             !.trace = Append(@, "StoreFailed")])
  /\ UNCHANGED <<table, openConns, client, delivered, requests, committed, inFlight>>

\* main.go:109-111: the return leaves the transaction as it is.
ExecFail(h) ==
  /\ handler[h].pc = "exec"
  /\ H(h, ReturnErr(handler[h], "StoreFailed"))
  /\ UNCHANGED <<table, openConns, client, delivered, requests, committed, inFlight>>

\* main.go:113-118: the commit makes the row visible and ends the
\* transaction, which gives its connection back; handleMessage returns nil.
Commit(h) ==
  /\ handler[h].pc = "commit"
  /\ table' = Upsert(table, handler[h].regionID, handler[h].typeID,
                     handler[h].compressedRowset)
  /\ openConns' = openConns - 1
  /\ LET k == <<handler[h].regionID, handler[h].typeID>>
     IN committed' = [committed EXCEPT ![k] = LastTwo(Append(@, handler[h].body))]
  /\ H(h, [handler[h] EXCEPT !.pc = "returned", !.ret = "nil", !.tx = "closed",
                             !.trace = Append(@, "Upserted")])
  /\ UNCHANGED <<client, delivered, requests, inFlight>>

\* main.go:113-116: a failed Commit ends the transaction all the same.
CommitFail(h) ==
  /\ handler[h].pc = "commit"
  /\ openConns' = openConns - 1
  /\ H(h, [ReturnErr(handler[h], "StoreFailed") EXCEPT !.tx = "closed"])
  /\ UNCHANGED <<table, client, delivered, requests, committed, inFlight>>

\* go-nsq after the handler returned nil: FIN, the message is acknowledged.
Finish(h) ==
  /\ handler[h].pc = "returned"
  /\ handler[h].ret = "nil"
  /\ H(h, IdleHandler(Append(handler[h].trace, "Acknowledged")))
  /\ inFlight' = inFlight - 1
  /\ UNCHANGED <<table, openConns, client, delivered, requests, committed>>

\* go-nsq after the handler returned an error: REQ, the message is requeued.
Requeue(h) ==
  /\ handler[h].pc = "returned"
  /\ handler[h].ret = "err"
  /\ H(h, IdleHandler(Append(handler[h].trace, "Requeued")))
  /\ inFlight' = inFlight - 1
  /\ UNCHANGED <<table, openConns, client, delivered, requests, committed>>

HandlerStep(h) ==
  \/ Receive(h)
  \/ Begin(h)
  \/ BeginFail(h)
  \/ Exec(h)
  \/ ExecFail(h)
  \/ Commit(h)
  \/ CommitFail(h)
  \/ Finish(h)
  \/ Requeue(h)

\* ---------------------------------------- getRegion, getType, getRegionType

Q(c, rec) == client' = [client EXCEPT ![c] = rec]

\* The three handlers differ in the WHERE clause only; the steps below are
\* shared and kind tells which handler the request runs.
StartRequest(c, kind, r, t) ==
  /\ client[c].pc = "idle"
  /\ requests < MaxRequests
  /\ requests' = requests + 1
  /\ Q(c, [IdleClient EXCEPT !.pc = "begin", !.kind = kind,
                             !.regionID = r, !.typeID = t])
  /\ UNCHANGED <<table, openConns, handler, delivered, committed, inFlight>>

\* GET /region/:regionID/
getRegion(c) == \E r \in RegionIDs : StartRequest(c, "region", r, 0)

\* GET /type/:typeID/
getType(c) == \E t \in TypeIDs : StartRequest(c, "type", 0, t)

\* GET /region/:regionID/type/:typeID/
getRegionType(c) ==
  \E r \in RegionIDs, t \in TypeIDs : StartRequest(c, "regionType", r, t)

\* A SELECT without its WHERE clause, and one that sees the upserts of
\* transactions that have not committed.
MatchingAny(tbl, kind, r, t) == tbl

DirtyMatching(tbl, kind, r, t) ==
  {row \in {x \in tbl : \A h \in Handlers :
                          handler[h].pc = "commit" =>
                            <<x.regionID, x.typeID>> #
                              <<handler[h].regionID, handler[h].typeID>>}
            \cup {[regionID |-> handler[h].regionID, typeID |-> handler[h].typeID,
                    market |-> handler[h].compressedRowset]
                     : h \in {g \in Handlers : handler[g].pc = "commit"}} :
     /\ kind \in {"region", "regionType"} => row.regionID = r
     /\ kind \in {"type", "regionType"} => row.typeID = t}

\* The rows the SELECT of the handler matches.
Matching(tbl, kind, r, t) ==
  {row \in tbl :
     /\ kind \in {"region", "regionType"} => row.regionID = r
     /\ kind \in {"type", "regionType"} => row.typeID = t}

\* The orders in which a result set may come back (no ORDER BY).
Orderings(S) ==
  {s \in [1..Cardinality(S) -> S] : \A i, j \in DOMAIN s : s[i] = s[j] => i = j}

\* An AbortWithError(code, err) followed by return.
Abort(c, code) == [client[c] EXCEPT !.pc = "responded", !.status = code]

\* db.Begin() of the handler
QBegin(c) ==
  /\ client[c].pc = "begin"
  /\ openConns < MaxOpenConns
  /\ openConns' = openConns + 1
  /\ Q(c, [client[c] EXCEPT !.pc = "query", !.tx = "open"])
  /\ UNCHANGED <<table, handler, delivered, requests, committed, inFlight>>

QBeginFail(c) ==
  /\ client[c].pc = "begin"
  /\ openConns < MaxOpenConns
  /\ Q(c, Abort(c, 500))
  /\ UNCHANGED <<table, openConns, handler, delivered, requests, committed, inFlight>>

\* tx.Query: the committed rows that match, in some order; fetching or
\* scanning one of them may fail later, while the rows are read.
QQuery(c) ==
  /\ client[c].pc = "query"
  /\ \E s \in Orderings(Matching(table, client[c].kind, client[c].regionID,
                                 client[c].typeID)) :
       \E n \in 0..Len(s), fault \in {"next", "scan"} :
         /\ fault = "scan" => n > 0
         /\ Q(c, [client[c] EXCEPT
                    !.pc = "merge",
                    !.snapshot = LastCommitted,
                    !.rows = Rows([i \in DOMAIN s |-> s[i].market],
                                  IF fault = "next" THEN n ELSE 0,
                                  IF fault = "scan" THEN n ELSE 0)])
  /\ UNCHANGED <<table, openConns, handler, delivered, requests, committed, inFlight>>

\* tx.Query failed: 500, and the return leaves the transaction as it is.
QQueryFail(c) ==
  /\ client[c].pc = "query"
  /\ Q(c, Abort(c, 500))
  /\ UNCHANGED <<table, openConns, handler, delivered, requests, committed, inFlight>>

\* concatRowsToJSON(rows) and the branch on its error.  A panic unwinds the
\* handler: no response is written.
QMerge(c) ==
  /\ client[c].pc = "merge"
  /\ LET m == concatRowsToJSON(client[c].rows)
     IN Q(c, IF m.kind = "ok"
             THEN [client[c] EXCEPT !.pc = "commit", !.merge = "ok",
                                    !.response = m.body]
             ELSE IF m.kind = "err"
             THEN [Abort(c, 404) EXCEPT !.merge = m.err]
             ELSE [client[c] EXCEPT !.pc = "crashed", !.merge = "panic"])
  /\ UNCHANGED <<table, openConns, handler, delivered, requests, committed, inFlight>>

\* tx.Commit() and context.Data(200, ...)
QCommit(c) ==
  /\ client[c].pc = "commit"
  /\ openConns' = openConns - 1
  /\ Q(c, [client[c] EXCEPT !.pc = "responded", !.status = 200, !.tx = "closed"])
  /\ UNCHANGED <<table, handler, delivered, requests, committed, inFlight>>

QCommitFail(c) ==
  /\ client[c].pc = "commit"
  /\ openConns' = openConns - 1
  /\ Q(c, [Abort(c, 500) EXCEPT !.tx = "closed"])
  /\ UNCHANGED <<table, handler, delivered, requests, committed, inFlight>>

\* The request is over; its goroutine serves the next one.
QDone(c) ==
  /\ client[c].pc \in {"responded", "crashed"}
  /\ Q(c, IdleClient)
  /\ UNCHANGED <<table, openConns, handler, delivered, requests, committed, inFlight>>

ClientStep(c) ==
  \/ getRegion(c)
  \/ getType(c)
  \/ getRegionType(c)
  \/ QBegin(c)
  \/ QBeginFail(c)
  \/ QQuery(c)
  \/ QQueryFail(c)
  \/ QMerge(c)
  \/ QCommit(c)
  \/ QCommitFail(c)
  \/ QDone(c)

Next ==
  \/ Deliver
  \/ \E h \in Handlers : HandlerStep(h)
  \/ \E c \in Clients : ClientStep(c)

Spec == Init /\ [][Next]_vars

\* ------------------------------------------------------------- ingestion
\* The consumer side alone: handlers race on the table, no HTTP request.

NextIngest == Deliver \/ \E h \in Handlers : HandlerStep(h)

SpecIngest == Init /\ [][NextIngest]_vars

\* ------------------------------------------------------------------ pool
\* The consumer side of a service that has run for a while: earlier
\* requests whose tx.Query failed (main.go:146-150) left their connections
\* held, and once none is left the messages nsqd sends wait in flight.

InitPool ==
  /\ \E leaked \in 0..MaxOpenConns, waiting \in {0, MaxInFlight - 1} :
       /\ waiting > 0 => leaked = MaxOpenConns
       /\ openConns = leaked
       /\ inFlight = waiting
  /\ table = {}
  /\ handler = [h \in Handlers |-> IdleHandler(<<>>)]
  /\ client = [c \in Clients |-> IdleClient]
  /\ delivered = 0
  /\ requests = MaxRequests
  /\ committed = [k \in Keys |-> <<>>]

SpecPool == InitPool /\ [][NextIngest]_vars

\* The steps of handler goroutine h after it was handed a message.  The Go
\* scheduler runs a goroutine that can run, and go-nsq answers nsqd as soon
\* as the handler returned.
HandlerRun(h) ==
  \/ Begin(h)
  \/ BeginFail(h)
  \/ Exec(h)
  \/ ExecFail(h)
  \/ Commit(h)
  \/ CommitFail(h)
  \/ Finish(h)
  \/ Requeue(h)

SpecPoolFair == SpecPool /\ \A h \in Handlers : WF_vars(HandlerRun(h))

\* ----------------------------------------------------------------- query
\* The HTTP side alone, over a table that earlier ingestion left behind.

\* The bodies that pass the validation of handleMessage, and the row the
\* upsert of such a body stores.
ValidBodies == {b \in DOMAIN Bodies : Validated[b].pc = "begin"}

RowOf(b) ==
  [regionID |-> Validated[b].regionID, typeID |-> Validated[b].typeID,
   market |-> Validated[b].compressedRowset]

\* What may be stored: for each key no body (0) or a valid body of the key,
\* at most MaxDeliveries of them.
Stores ==
  {f \in [Keys -> {0} \cup ValidBodies] :
     /\ \A k \in Keys :
          f[k] # 0 => <<RowOf(f[k]).regionID, RowOf(f[k]).typeID>> = k
     /\ Cardinality({k \in Keys : f[k] # 0}) <= MaxDeliveries}

InitQuery ==
  /\ \E f \in Stores :
       /\ table = {RowOf(f[k]) : k \in {j \in Keys : f[j] # 0}}
       /\ committed = [k \in Keys |-> IF f[k] = 0 THEN <<>> ELSE <<f[k]>>]
       /\ delivered = Cardinality({k \in Keys : f[k] # 0})
  /\ inFlight = 0
  /\ openConns = 0
  /\ handler = [h \in Handlers |-> IdleHandler(<<>>)]
  /\ client = [c \in Clients |-> IdleClient]
  /\ requests = 0

NextQuery == \E c \in Clients : ClientStep(c)

SpecQuery == InitQuery /\ [][NextQuery]_vars

\* ----------------------------------------------------------------- merge
\* concatRowsToJSON on result sets of up to MaxRows rows, among them rows
\* that ingestion cannot have written as they are (a corrupt market).

MaxRows == 2

\* The orders values of the rows: arrays of one, two and no element, then
\* a number, a string, null and an object.
oSeven == Bs(<<"7">>)
oEight == Bs(<<"8">>)
oPrice == Bs(<<"{", "\"", "p", "\"", ":", "5", "}">>)
oArray1 == Bs(<<"[">>) \o oSeven \o Bs(<<"]">>)
oArray2 == Bs(<<"[">>) \o oEight \o Bs(<<",">>) \o oPrice \o Bs(<<"]">>)
oArray0 == Bs(<<"[", "]">>)
oNumber == Bs(<<"5">>)
oString == Bs(<<"\"", "a", "b", "c", "\"">>)
oNull == Bs(<<"n", "u", "l", "l">>)
oObject == Bs(<<"{", "\"", "a", "\"", ":", "1", "}">>)

\* The market column of the rows of region 1 that a result set may hold,
\* by typeID: 1-3 hold an orders array, 4 has no orders member, 5-8 hold an
\* orders that is no array, 9 is not snappy data (it announces five bytes
\* and holds one).
Stored ==
  << snappy_Encode(Market(Bs(<<"1">>), Bs(<<"1">>), oArray1)),
     snappy_Encode(Market(Bs(<<"1">>), Bs(<<"2">>), oArray2)),
     snappy_Encode(Market(Bs(<<"1">>), Bs(<<"3">>), oArray0)),
     snappy_Encode(Object(<<Member(kRegionID, Bs(<<"1">>)),
                            Member(kTypeID, Bs(<<"4">>))>>)),
     snappy_Encode(Market(Bs(<<"1">>), Bs(<<"5">>), oNumber)),
     snappy_Encode(Market(Bs(<<"1">>), Bs(<<"6">>), oString)),
     snappy_Encode(Market(Bs(<<"1">>), Bs(<<"7">>), oNull)),
     snappy_Encode(Market(Bs(<<"1">>), Bs(<<"8">>), oObject)),
     <<5, 0, 97>> >>

\* The result sets: up to MaxRows different rows in any order, with or
\* without a failure while they are read.
ResultSets ==
  UNION {{s \in [1..n -> DOMAIN Stored] : \A i, j \in 1..n : s[i] = s[j] => i = j}
           : n \in 0..MaxRows}

InitMerge ==
  /\ \E s \in ResultSets, n \in 0..MaxRows, fault \in {"next", "scan"} :
       /\ n <= Len(s)
       /\ fault = "scan" => n > 0
       /\ table = {[regionID |-> 1, typeID |-> s[i], market |-> Stored[s[i]]]
                     : i \in DOMAIN s}
       /\ client = [c \in Clients |->
            IF c = 1
            THEN [IdleClient EXCEPT
                    !.pc = "merge", !.kind = "region", !.regionID = 1, !.tx = "open",
                    !.rows = Rows([i \in DOMAIN s |-> Stored[s[i]]],
                                  IF fault = "next" THEN n ELSE 0,
                                  IF fault = "scan" THEN n ELSE 0)]
            ELSE IdleClient]
  /\ openConns = 1
  /\ handler = [h \in Handlers |-> IdleHandler(<<>>)]
  /\ delivered = 0
  /\ inFlight = 0
  /\ requests = 1
  /\ committed = [k \in Keys |-> <<>>]

NextMerge ==
  \E c \in Clients : QMerge(c) \/ QCommit(c) \/ QCommitFail(c) \/ QDone(c)

SpecMerge == InitMerge /\ [][NextMerge]_vars

\* ================================================================ properties

KeyOf(h) == <<handler[h].regionID, handler[h].typeID>>
RowsAt(k) == RowsOf(table, k[1], k[2])
Last(s) == s[Len(s)]

\* C1: in every reachable state of the store, whatever upserts committed and
\* however the handlers interleaved, there is at most one row for each
\* (regionID, typeID) pair.
C1_KeyUnique ==
  /\ \A k \in Keys : Cardinality(RowsAt(k)) <= 1
  /\ \A row \in table : <<row.regionID, row.typeID>> \in Keys

\* Two different bodies were committed for one key, one after the other.
C1_Witness ==
  \E k \in Keys :
    /\ Len(committed[k]) = 2
    /\ committed[k][1] # committed[k][2]
    /\ Cardinality(RowsAt(k)) = 1

\* C2: when the upsert of payload P2 for key K committed after the upsert of
\* P1 for K, there is exactly one row for K and the decompressed content of
\* its market is P2.
C2_SecondPayloadReplacesFirst ==
  \A k \in Keys :
    Len(committed[k]) = 2 =>
      /\ Cardinality(RowsAt(k)) = 1
      /\ \A row \in RowsAt(k) :
           snappy_Decode(row.market) = [ok |-> TRUE, data |-> Bodies[committed[k][2]]]

\* Body 1 and then body 2 were upserted for key (1, 1), the second in a
\* transaction that began when no other was open for the key.
C2_Witness ==
  /\ committed[<<1, 1>>] = <<1, 2>>
  /\ \E h \in Handlers :
       /\ handler[h].pc = "returned" /\ handler[h].ret = "nil"
       /\ handler[h].body = 2 /\ ~handler[h].overlapped
       /\ \A g \in Handlers \ {h} : handler[g].pc = "idle"

\* C3: when handlers upsert the same key with distinct payloads at the same
\* time and all commit, the store holds exactly one row for the key; its
\* market is the compressed payload of the transaction that committed last,
\* whole, so one of the payloads and no mixture; it decompresses without error.
C3_ConcurrentUpsertsLastCommitWins ==
  \A h1, h2 \in Handlers :
    ( /\ h1 # h2
      /\ handler[h1].pc = "returned" /\ handler[h1].ret = "nil"
      /\ handler[h2].pc = "returned" /\ handler[h2].ret = "nil"
      /\ KeyOf(h1) = KeyOf(h2)
      /\ handler[h1].body # handler[h2].body
      /\ committed[KeyOf(h1)] \in {<<handler[h1].body, handler[h2].body>>,
                                    <<handler[h2].body, handler[h1].body>>} )
    => /\ Cardinality(RowsAt(KeyOf(h1))) = 1
       /\ \A row \in RowsAt(KeyOf(h1)) :
            /\ row.market \in {handler[h1].compressedRowset,
                               handler[h2].compressedRowset}
            /\ snappy_Decode(row.market).ok
            /\ snappy_Decode(row.market).data = Bodies[Last(committed[KeyOf(h1)])]

\* Both handlers committed distinct payloads for one key, and the
\* transaction of one began while that of the other was open.
C3_Witness ==
  \E h1, h2 \in Handlers :
    /\ h1 # h2
    /\ handler[h1].pc = "returned" /\ handler[h1].ret = "nil"
    /\ handler[h2].pc = "returned" /\ handler[h2].ret = "nil"
    /\ KeyOf(h1) = KeyOf(h2)
    /\ handler[h1].body # handler[h2].body
    /\ handler[h2].overlapped
    /\ Len(Bodies[handler[h1].body]) # Len(Bodies[handler[h2].body])

\* C4: each of getRegion, getType and getRegionType releases the read
\* transaction it began on every exit path: once the handler has responded,
\* with 200, 404 or 500, its transaction is not open, and when no request
\* is under way no pool connection is held.
C4_TransactionReleased ==
  /\ \A c \in Clients : client[c].pc = "responded" => client[c].tx # "open"
  /\ (\A c \in Clients : client[c].pc = "idle") => openConns = 0

\* The bodies of the model that lack regionID (6) or typeID (7) or hold a
\* string (8) or a fraction (9) in their place.
Malformed == {6, 7, 8, 9}

Range(s) == {s[i] : i \in DOMAIN s}

\* C5: a message whose body lacks regionID or typeID, or carries a value for
\* either that is no integer, is rejected: handleMessage returns an error
\* (the message is requeued, not acknowledged), opens no transaction, and
\* nothing of the message is committed to the store.
C5_MalformedRejected ==
  /\ \A h \in Handlers :
       handler[h].body \in Malformed =>
         /\ handler[h].pc = "returned" /\ handler[h].ret = "err"
         /\ handler[h].tx = "none"
         /\ handler[h].trace = <<"Received", "Rejected">>
  /\ \A k \in Keys : Range(committed[k]) \cap Malformed = {}
  /\ \A row \in table, b \in Malformed : snappy_Decode(row.market).data # Bodies[b]

\* One handler returned from a body without regionID and the other from a
\* body whose typeID is a fraction.
C5_Witness ==
  \E h1, h2 \in Handlers :
    /\ handler[h1].body = 6 /\ handler[h1].pc = "returned"
    /\ handler[h2].body = 9 /\ handler[h2].pc = "returned"
    /\ openConns = 0 /\ table = {}

\* C6: a storage failure during ingestion (Begin, Exec or Commit failing)
\* makes handleMessage return an error, so the message is requeued; a message
\* is acknowledged, and nil returned, only when its upsert committed.
C6_StoreFailureReported ==
  \A h \in Handlers :
    /\ (handler[h].pc = "returned" /\ "StoreFailed" \in Range(handler[h].trace))
         => handler[h].ret = "err"
    /\ (handler[h].pc = "idle" /\ "StoreFailed" \in Range(handler[h].trace))
         => Last(handler[h].trace) = "Requeued"
    /\ handler[h].ret = "nil" => Last(handler[h].trace) = "Upserted"
    /\ "Acknowledged" \in Range(handler[h].trace)
         => /\ "Upserted" \in Range(handler[h].trace)
            /\ "StoreFailed" \notin Range(handler[h].trace)

\* A message whose upsert failed after its transaction had begun was
\* requeued, and the message of the other handler was acknowledged.
C6_Witness ==
  \E h1, h2 \in Handlers :
    /\ handler[h1].trace =
         <<"Received", "FieldsValidated", "Compressed", "StoreFailed", "Requeued">>
    /\ "Acknowledged" \in Range(handler[h2].trace)
    /\ openConns > 0

\* The paths of a message through its states.
MessagePaths ==
  { <<"Received", "FieldsValidated", "Compressed", "Upserted", "Acknowledged">>,
    <<"Received", "FieldsValidated", "Compressed", "StoreFailed", "Requeued">>,
    <<"Received", "Rejected", "Requeued">> }

IsPrefix(s, t) == Len(s) <= Len(t) /\ s = SubSeq(t, 1, Len(s))

\* C7: every message follows the state machine: it is acknowledged only
\* after its fields were validated, its body compressed and its upsert
\* committed, in that order; a message that fails validation goes from
\* Received to Rejected and reaches none of Compressed, Upserted, Acknowledged.
C7_MessageStateMachine ==
  \A h \in Handlers :
    /\ \E path \in MessagePaths : IsPrefix(handler[h].trace, path)
    /\ "Acknowledged" \in Range(handler[h].trace) =>
         handler[h].trace =
           <<"Received", "FieldsValidated", "Compressed", "Upserted", "Acknowledged">>
    /\ "Rejected" \in Range(handler[h].trace) =>
         /\ handler[h].trace[2] = "Rejected"
         /\ Range(handler[h].trace)
              \cap {"FieldsValidated", "Compressed", "Upserted", "Acknowledged"} = {}

\* One message went all the way to Acknowledged, another was rejected.
C7_Witness ==
  \E h1, h2 \in Handlers :
    /\ handler[h1].trace =
         <<"Received", "FieldsValidated", "Compressed", "Upserted", "Acknowledged">>
    /\ handler[h2].trace = <<"Received", "Rejected", "Requeued">>

\* The rows of Stored by what their market holds: an orders array, no
\* readable orders (the member is absent, the market does not decompress),
\* an orders that is not an array; and the elements of the arrays.
Arrays == {1, 2, 3}
Unreadable == {4, 9}
NotArray == {5, 6, 7, 8}
StoredElements == << <<oSeven>>, <<oEight, oPrice>>, <<>> >>

StoredIndex(market) == CHOOSE i \in DOMAIN Stored : Stored[i] = market
RowIndex(c) ==
  [i \in DOMAIN client[c].rows.data |-> StoredIndex(client[c].rows.data[i])]
AllFetched(c) == client[c].rows.nextErrAt = 0 /\ client[c].rows.scanErrAt = 0
Merged(c) == client[c].pc \in {"commit", "responded", "crashed"}

\* The elements of a JSON array literal: what stands between its brackets,
\* cut at the commas outside any nested array or object.
RECURSIVE Cut(_, _, _, _, _)
Cut(inner, i, depth, cur, acc) ==
  IF i > Len(inner) THEN Append(acc, cur)
  ELSE IF inner[i] = 44 /\ depth = 0 THEN Cut(inner, i + 1, 0, <<>>, Append(acc, cur))
  ELSE IF inner[i] \in {91, 123} THEN Cut(inner, i + 1, depth + 1, Append(cur, inner[i]), acc)
  ELSE IF inner[i] \in {93, 125} THEN Cut(inner, i + 1, depth - 1, Append(cur, inner[i]), acc)
  ELSE Cut(inner, i + 1, depth, Append(cur, inner[i]), acc)

Elements(body) ==
  IF Len(body) = 2 THEN <<>> ELSE Cut(SubSeq(body, 2, Len(body) - 1), 1, 0, <<>>, <<>>)

IsArrayLiteral(body) ==
  /\ Len(body) >= 2 /\ body[1] = 91 /\ body[Len(body)] = 93
  /\ \A i \in DOMAIN Elements(body) : Elements(body)[i] # <<>>

RECURSIVE Flatten(_)
Flatten(ss) == IF ss = <<>> THEN <<>> ELSE Head(ss) \o Flatten(Tail(ss))

SameElements(a, b) ==
  /\ Len(a) = Len(b)
  /\ \E p \in [DOMAIN a -> DOMAIN a] :
       /\ \A i, j \in DOMAIN a : p[i] = p[j] => i = j
       /\ \A i \in DOMAIN a : a[i] = b[p[i]]

\* C8: the merge of N rows that all hold an orders array gives one
\* well-formed JSON array literal that holds every element of every row
\* once, for every N from 0 and also when an orders array is empty.
C8_MergeKeepsEveryElement ==
  \A c \in Clients :
    ( /\ Merged(c) /\ AllFetched(c)
      /\ \A i \in DOMAIN RowIndex(c) : RowIndex(c)[i] \in Arrays )
    => /\ client[c].merge = "ok"
       /\ IsArrayLiteral(client[c].response)
       /\ SameElements(Elements(client[c].response),
                       Flatten([i \in DOMAIN RowIndex(c) |->
                                  StoredElements[RowIndex(c)[i]]]))

\* C9: the merge is all or nothing: when a row that was fetched does not
\* decompress or has no orders member, and the other rows hold orders
\* arrays, concatRowsToJSON returns an error and no body and the request
\* ends in 404, wherever the row stands and however many rows are valid.
C9_MergeAllOrNothing ==
  \A c \in Clients :
    ( /\ Merged(c)
      /\ \A i \in DOMAIN RowIndex(c) : RowIndex(c)[i] \in Arrays \cup Unreadable
      /\ \E i \in DOMAIN RowIndex(c) :
           /\ RowIndex(c)[i] \in Unreadable
           /\ client[c].rows.nextErrAt = 0 \/ i < client[c].rows.nextErrAt )
    => /\ client[c].pc = "responded" /\ client[c].status = 404
       /\ client[c].merge \in {"decode", "orders", "scan"}
       /\ client[c].response = <<>>

\* A request answered 404 whose second and last row does not decompress
\* while its first row holds an orders array.
C9_Witness ==
  \E c \in Clients :
    /\ client[c].pc = "responded" /\ client[c].status = 404
    /\ client[c].merge = "decode"
    /\ AllFetched(c)
    /\ Len(client[c].rows.data) = 2
    /\ RowIndex(c)[1] \in Arrays /\ RowIndex(c)[2] = 9

\* C10: a row whose orders member is present and is not an array (a number,
\* a string, null, an object) makes the merge end in a merge error: the
\* request is answered 404, nothing of the value is spliced into a response
\* and the handler does not panic.
C10_NonArrayOrdersRejected ==
  \A c \in Clients :
    ( /\ Merged(c) /\ AllFetched(c)
      /\ \A i \in DOMAIN RowIndex(c) : RowIndex(c)[i] \in Arrays \cup NotArray
      /\ \E i \in DOMAIN RowIndex(c) : RowIndex(c)[i] \in NotArray )
    => /\ client[c].pc = "responded" /\ client[c].status = 404
       /\ client[c].merge = "orders"
       /\ client[c].response = <<>>

\* C11: a query of a (regionID, typeID) pair for which no message was ever
\* ingested is answered 404 with no body, unless a store error made it a 500.
C11_UnknownPairNotFound ==
  \A c \in Clients :
    ( /\ client[c].pc = "responded" /\ client[c].kind = "regionType"
      /\ committed[<<client[c].regionID, client[c].typeID>>] = <<>>
      /\ RowsOf(table, client[c].regionID, client[c].typeID) = {}
      /\ client[c].status # 500 )
    => client[c].status = 404 /\ client[c].response = <<>>

\* C12: the merge of an empty row set, and of a row set of which no row was
\* processed, returns exactly [] and no error.
C12_EmptyMergeIsEmptyArray ==
  \A c \in Clients :
    ( /\ Merged(c)
      /\ client[c].rows.data = <<>> \/ client[c].rows.nextErrAt = 1 )
    => client[c].merge = "ok" /\ client[c].response = <<91, 93>>

\* The merge of a result set without rows has returned.
C12_Witness ==
  \E c \in Clients :
    /\ client[c].pc = "commit" /\ client[c].rows.data = <<>>
    /\ client[c].response = <<91, 93>>

\* C13: in the query handlers every store error (Begin, Query, the fetch or
\* the scan of a row, Commit) gives a 500 and every decode or merge error a
\* 404; a 200 is sent only when all matching rows were fetched and merged and
\* the transaction committed.
C13_ErrorsMapToStatus ==
  \A c \in Clients :
    client[c].pc = "responded" =>
      /\ client[c].status \in {200, 404, 500}
      /\ client[c].merge = "scan" => client[c].status = 500
      /\ client[c].merge \in {"decode", "orders"} => client[c].status = 404
      /\ client[c].status = 200 =>
           /\ client[c].rows.nextErrAt = 0 /\ client[c].rows.scanErrAt = 0
           /\ client[c].merge = "ok" /\ client[c].tx = "closed"

\* The bodies of the model that hold an orders array, the orders member of
\* each as the message spells it, and the elements of the array.
ArrayBodies == {1, 2, 3, 10}
OrdersOf(b) ==
  CASE b = 1 -> Bs(<<"[", "7", "]">>)
    [] b = 2 -> Bs(<<"[", "8", ",", "9", "]">>)
    [] b = 3 -> Bs(<<"[", "]">>)
    [] b = 10 -> Bs(<<"[", "6", "]">>)
ElementsOf(b) ==
  CASE b = 1 -> <<Bs(<<"7">>)>>
    [] b = 2 -> <<Bs(<<"8">>), Bs(<<"9">>)>>
    [] b = 3 -> <<>>
    [] b = 10 -> <<Bs(<<"6">>)>>

\* The query of the request has run: its rows are those of its snapshot.
Queried(c) == client[c].pc = "merge" \/ client[c].merge # "none"

\* The key a market was stored under, read from its decompressed body.
KeyOfMarket(market) ==
  << jsonparser_GetInt(snappy_Decode(market).data, kRegionID).val,
     jsonparser_GetInt(snappy_Decode(market).data, kTypeID).val >>

\* The keys with a committed body at the time of the query that the
\* request asks for.
Wanted(c) ==
  {k \in Keys :
     /\ client[c].snapshot[k] # 0
     /\ client[c].kind \in {"region", "regionType"} => k[1] = client[c].regionID
     /\ client[c].kind \in {"type", "regionType"} => k[2] = client[c].typeID}

SeqOf(S) ==
  CHOOSE q \in [1..Cardinality(S) -> S] : \A i, j \in 1..Cardinality(S) : q[i] = q[j] => i = j

\* C14: end to end: once a message is ingested its row decompresses to
\* exactly the raw body of the message committed last for the pair, and a
\* query of the pair, when no store error occurs, is answered 200 with a body
\* equal to the orders array of that message.
C14_IngestThenQueryPair ==
  /\ \A k \in Keys :
       committed[k] # <<>> =>
         /\ Cardinality(RowsAt(k)) = 1
         /\ \A row \in RowsAt(k) :
              snappy_Decode(row.market) = [ok |-> TRUE, data |-> Bodies[LastCommitted[k]]]
  /\ \A c \in Clients :
       ( /\ client[c].pc = "responded" /\ client[c].kind = "regionType"
         /\ AllFetched(c) /\ client[c].status # 500
         /\ client[c].snapshot[<<client[c].regionID, client[c].typeID>>] \in ArrayBodies )
       => /\ client[c].status = 200
          /\ client[c].response =
               OrdersOf(client[c].snapshot[<<client[c].regionID, client[c].typeID>>])

\* Bodies 1 and 2 were ingested for (1, 1) and acknowledged, and the query
\* of (1, 1) was answered with the orders of body 2.
C14_Witness ==
  /\ committed[<<1, 1>>] = <<1, 2>>
  /\ \A h \in Handlers :
       handler[h].pc = "idle" /\ "Acknowledged" \in Range(handler[h].trace)
  /\ \E c \in Clients :
       /\ client[c].pc = "responded" /\ client[c].kind = "regionType"
       /\ client[c].status = 200
       /\ client[c].snapshot[<<1, 1>>] = 2
       /\ client[c].response = Bs(<<"[", "8", ",", "9", "]">>)

\* C15: a query by region (by type) merges the rows of exactly the stored
\* pairs with that regionID (typeID), a query by region and type at most one
\* row; when the rows hold non-empty orders arrays and no store error occurs
\* the answer is 200 with an array holding every order of every such row.
C15_QuerySelectsItsKeys ==
  \A c \in Clients :
    Queried(c) =>
      /\ {KeyOfMarket(client[c].rows.data[i]) : i \in DOMAIN client[c].rows.data}
           = Wanted(c)
      /\ Len(client[c].rows.data) = Cardinality(Wanted(c))
      /\ client[c].kind = "regionType" => Len(client[c].rows.data) <= 1
      /\ ( /\ client[c].pc = "responded" /\ AllFetched(c) /\ client[c].status # 500
           /\ \A k \in Wanted(c) : client[c].snapshot[k] \in ArrayBodies \ {3} )
         => /\ client[c].status = 200
            /\ IsArrayLiteral(client[c].response)
            /\ SameElements(Elements(client[c].response),
                            Flatten([i \in 1..Cardinality(Wanted(c)) |->
                                       ElementsOf(client[c].snapshot[SeqOf(Wanted(c))[i]])]))

\* Two messages of typeID 1, for regions 1 and 2 and with one order each,
\* were ingested, and the query by type 1 was answered with both orders.
C15_Witness ==
  \E c \in Clients :
    /\ client[c].pc = "responded" /\ client[c].kind = "type" /\ client[c].typeID = 1
    /\ client[c].status = 200
    /\ client[c].snapshot[<<1, 1>>] = 1 /\ client[c].snapshot[<<2, 1>>] = 10
    /\ Len(Elements(client[c].response)) = 2

\* C16: a query that runs while an upsert of the same key is under way reads
\* for that key a whole payload: every row it reads decompresses to the body
\* that was committed last for its key when the query ran, and so never to
\* the payload of an upsert that has not committed nor to a mixture.
C16_ReadsOnlyCommittedWholePayloads ==
  \A c \in Clients :
    Queried(c) =>
      \A i \in DOMAIN client[c].rows.data :
        /\ snappy_Decode(client[c].rows.data[i]).ok
        /\ KeyOfMarket(client[c].rows.data[i]) \in Keys
        /\ client[c].snapshot[KeyOfMarket(client[c].rows.data[i])] # 0
        /\ snappy_Decode(client[c].rows.data[i]).data =
             Bodies[client[c].snapshot[KeyOfMarket(client[c].rows.data[i])]]

\* A request has read body 1 for key (1, 1) in its transaction while the
\* transaction of a handler that ran the upsert of body 2 for (1, 1) is open.
C16_Witness ==
  \E c \in Clients, h \in Handlers :
    /\ client[c].pc = "merge" /\ client[c].tx = "open"
    /\ client[c].snapshot[<<1, 1>>] = 1
    /\ Len(client[c].rows.data) = 1
    /\ handler[h].pc = "commit" /\ handler[h].tx = "open"
    /\ handler[h].body = 2

C18_HandlerReleasesTransaction ==
  \A h \in Handlers : handler[h].pc = "returned" => handler[h].tx # "open"

\* C19: under fair scheduling every handler that was handed a message gets
\* to the end of it: no db.Begin() waits for ever.
C19_EveryHandlerFinishes ==
  \A h \in Handlers : (handler[h].pc # "idle") ~> (handler[h].pc = "idle")

\* C20: a step changes at most the row of one key, the key an upsert
\* commits for; every other row stays as it is and no row is removed, so the
\* set of stored keys only grows.
C20_UpsertChangesOnlyItsRow ==
  [][ /\ \A row \in table :
           \E row2 \in table' : row2.regionID = row.regionID /\ row2.typeID = row.typeID
      /\ \A h \in Handlers :
           (handler[h].pc = "commit" /\ handler'[h].pc = "returned")
             => \A row \in table :
                  <<row.regionID, row.typeID>> # KeyOf(h) => row \in table'
      /\ (\A h \in Handlers : ~(handler[h].pc = "commit" /\ handler'[h].pc = "returned"))
           => table' = table ]_vars

\* An upsert has just committed for one key while the row of another key
\* was stored, and both rows are there.
C20_Witness ==
  /\ Cardinality(table) = 2
  /\ \E h \in Handlers :
       /\ handler[h].pc = "returned"
       /\ Last(handler[h].trace) = "Upserted"
       /\ \E row \in table : <<row.regionID, row.typeID>> # KeyOf(h)

====
